---- MODULE Spec2Model ----
(***************************************************************************)
(* printandscan.py: one run of main().  The run is a straight-line         *)
(* pipeline of external tool invocations (gs, pdftk, magick) inside a      *)
(* tempfile.TemporaryDirectory block.  The state is the interpreter's      *)
(* position, main()'s locals, the temporary workspace, the user's output   *)
(* path and the log of external invocations made so far.                   *)
(***************************************************************************)
EXTENDS Integers, Sequences, FiniteSets

VARIABLES
    pc,            \* position of the run in main()
    path,          \* tools shutil.which resolves on this machine
    doc,           \* the input document: its page count and its Title metadata
    tmpdir,        \* TRUE while the temporary directory exists on disk
    tmpCreated,    \* TRUE once TemporaryDirectory() has run
    files,         \* name -> content of every file inside the temporary directory
    num_pages,     \* main(): num_pages (-1 before it is assigned)
    scanned_pdfs,  \* main(): scanned_pdfs, as page indices of <base>-NNNN-scanned.pdf
    i,             \* main(): the loop variable
    rotation,      \* main(): rotation, as a numerator over RotDen
    rng,           \* number of values drawn from the random generator so far
    calls,         \* subprocess.run invocations started so far, in order
    missing,       \* tools named in check_dependencies' error message
    output,        \* the file at args.output_fname: its state and its pages
    exitCause,     \* why the run is leaving (or left) main()
    exitStatus     \* process exit status (-1 while running)

vars == <<pc, path, doc, tmpdir, tmpCreated, files, num_pages, scanned_pdfs, i,
          rotation, rng, calls, missing, output, exitCause, exitStatus>>

----------------------------------------------------------------------------
(* Bounds of the model *)

\* Largest page count of an input document, and largest number a Title can spell.
MaxPages == 3

\* Bits of resolution of random.random() (53 in CPython; the model keeps RandBits).
RandBits == 15

----------------------------------------------------------------------------
(* Generic helpers *)

RECURSIVE Pow2(_)
Pow2(n) == IF n = 0 THEN 1 ELSE 2 * Pow2(n - 1)

Range(s) == {s[j] : j \in 1..Len(s)}

IsPrefix(s, t) == Len(s) <= Len(t) /\ SubSeq(t, 1, Len(s)) = s

----------------------------------------------------------------------------
(* check_dependencies *)

dependencies == <<"gs", "pdftk", "magick">>

\* Variant of MissingDeps that stops at the first unresolvable tool.
MissingFirstOnly(p) ==
    LET all == SelectSeq(dependencies, LAMBDA d : d \notin p)
    IN  IF all = <<>> THEN <<>> ELSE <<Head(all)>>

\* missing = [dep for dep in dependencies if shutil.which(dep) is None]
MissingDeps(p) == SelectSeq(dependencies, LAMBDA d : d \notin p)

----------------------------------------------------------------------------
(* Text of pdftk dump_data, as whitespace-separated tokens *)

Word(w)   == [t |-> "word", w |-> w, n |-> 0]
Digits(n) == [t |-> "digits", w |-> "", n |-> n]

\* The Title a document may carry: ordinary words, or text that itself reads
\* "NumberOfPages: n".
Titles ==
    {<<Word("Report")>>} \cup {<<Word("NumberOfPages:"), Digits(n)>> : n \in 0..MaxPages}

\* pdftk prints the Info dictionary first, then the document's own fields.
DumpData(d, withField) ==
    <<Word("InfoBegin"), Word("InfoKey:"), Word("Title"), Word("InfoValue:")>>
        \o d.title
        \o (IF withField THEN <<Word("NumberOfPages:"), Digits(d.pages)>> ELSE <<>>)
        \o <<Word("PageMediaBegin")>>

\* re.search(r'NumberOfPages:\s*(\d+)', result.stdout): the leftmost match in
\* the whole text; -1 stands for None.
ReSearch(stdout) ==
    LET hits == {j \in 1..(Len(stdout) - 1) :
                    /\ stdout[j].t = "word"
                    /\ stdout[j].w = "NumberOfPages:"
                    /\ stdout[j + 1].t = "digits"}
    IN  IF hits = {} THEN -1
        ELSE LET first == CHOOSE j \in hits : \A k \in hits : j <= k
             IN  stdout[first + 1].n

----------------------------------------------------------------------------
(* The rotation angle: random.uniform(-.5, .5) and f'{rotation:.4f}' *)

\* Angles are exact rationals num / RotDen, in degrees.
RotDen == 2 * Pow2(RandBits)

\* random.random() returns k / 2^RandBits for 0 <= k < 2^RandBits.  The draws
\* the model takes: both ends of that range, the middle, and a value that
\* formats to an exact tie.
RandomDraws ==
    {0, 1, Pow2(RandBits - 1), Pow2(RandBits - 1) + Pow2(RandBits - 5),
     Pow2(RandBits) - 1}

\* uniform(a, b) = a + (b - a) * random(), with a and b given in half degrees.
UniformOver(a2, b2, k) == a2 * Pow2(RandBits) + (b2 - a2) * k

\* Variant of Uniform: random.uniform(-1, 1).
Uniform_Wide(k) == UniformOver(-2, 2, k)

\* random.uniform(-.5, .5)

Uniform(k) == UniformOver(-1, 1, k)

\* '%.4f' of num / RotDen, as a count of ten-thousandths: the nearest one,
\* an exact tie going to the even neighbour.
Format4(num) ==
    LET x == num * 10000
        q == x \div RotDen
        r == x % RotDen
    IN  IF 2 * r < RotDen THEN q
        ELSE IF 2 * r > RotDen THEN q + 1
        ELSE IF q % 2 = 0 THEN q ELSE q + 1

----------------------------------------------------------------------------
(* Files of the temporary workspace *)

\* A page as carried by a file: the input page it shows and its form.
Page(k, form) == [page |-> k, form |-> form]

rgb_pdf         == <<"_RGB.pdf", 0>>
page_pdf(n)     == <<"-%04d.pdf", n>>
page_png(n)     == <<"-%04d.png", n>>
scanned_pdf(n)  == <<"-%04d-scanned.pdf", n>>
large_pdf       == <<"_large.pdf", 0>>

Exists(f) == f \in DOMAIN files

Content(f) == IF Exists(f) THEN files[f] ELSE <<>>

Written(fs, f, content) ==
    [g \in (DOMAIN fs) \cup {f} |-> IF g = f THEN content ELSE fs[g]]

\* pdftk burst: one single-page file per page of its input, numbered from 1.
Burst(fs, src) ==
    LET pages == IF src \in DOMAIN fs THEN fs[src] ELSE <<>>
        new   == {page_pdf(n) : n \in 1..Len(pages)}
    IN  [g \in (DOMAIN fs) \cup new |->
            IF g \in new THEN <<pages[g[2]]>> ELSE fs[g]]

RECURSIVE Concat(_, _)
Concat(fs, names) ==
    IF names = <<>> THEN <<>>
    ELSE (IF Head(names) \in DOMAIN fs THEN fs[Head(names)] ELSE <<>>)
            \o Concat(fs, Tail(names))

Reform(pages, form) == [j \in 1..Len(pages) |-> Page(pages[j].page, form)]

----------------------------------------------------------------------------
(* subprocess.run *)

\* How an invocation ends: exit status 0, a non-zero exit status, or the
\* executable cannot be started.
Outcomes == {"ok", "nonzero", "notfound"}

Call(op, page, pages, angle, draw, outcome) ==
    [op |-> op, page |-> page, pages |-> pages, angle |-> angle, draw |-> draw,
     outcome |-> outcome]

\* Variant of Raises: subprocess.run without check=True, which ignores the exit
\* status.
Raises_Unchecked(outcome) == outcome = "notfound"

\* check=True: CalledProcessError on a non-zero status; FileNotFoundError when
\* the executable is missing.

Raises(outcome) == outcome # "ok"

----------------------------------------------------------------------------
(* Control flow of main() *)

\* Variant of PageRange: range(1, num_pages).
PageRange_OffByOne(n) == 1..(n - 1)

\* range(1, num_pages + 1)

PageRange(n) == 1..n

\* Variant of StageAfter: the page count is queried before the split.
StageAfter_CountFirst(stage, k, n) ==
    CASE stage = "normalize"  -> "page_count"
      [] stage = "page_count" -> "split"
      [] stage = "split"      -> IF 1 \in PageRange(n) THEN "rasterize" ELSE "assemble"
      [] stage = "rasterize"  -> "distort"
      [] stage = "distort"    -> IF k + 1 \in PageRange(n) THEN "rasterize" ELSE "assemble"
      [] stage = "assemble"   -> "compress"
      [] OTHER                -> "unwind"

\* The statement main() reaches when the stage `stage` of page k has returned,
\* n being num_pages.
StageAfter(stage, k, n) ==
    CASE stage = "normalize"  -> "split"
      [] stage = "split"      -> "page_count"
      [] stage = "page_count" -> IF 1 \in PageRange(n) THEN "rasterize" ELSE "assemble"
      [] stage = "rasterize"  -> "distort"
      [] stage = "distort"    -> IF k + 1 \in PageRange(n) THEN "rasterize" ELSE "assemble"
      [] stage = "assemble"   -> "compress"
      [] OTHER                -> "unwind"

\* The statements of the with block, each an external invocation.
InBlock == {"normalize", "split", "page_count", "rasterize", "distort", "assemble",
            "compress"}

\* An exception leaves the with block: nothing after the raising statement runs.
Leave(cause) ==
    /\ pc' = "unwind"
    /\ exitCause' = cause

\* The exception subprocess.run(check=True) raises for a failed invocation.
Error(outcome) ==
    IF outcome = "notfound" THEN "FileNotFoundError" ELSE "CalledProcessError"

----------------------------------------------------------------------------
(* The run *)

NoFiles == [f \in {} |-> <<>>]

Init ==
    /\ pc = "check_dependencies"
    /\ path \in SUBSET Range(dependencies)
    /\ doc \in [pages : 0..MaxPages, title : Titles]
    /\ tmpdir = FALSE
    /\ tmpCreated = FALSE
    /\ files = NoFiles
    /\ num_pages = -1
    /\ scanned_pdfs = <<>>
    /\ i = 0
    /\ rotation = 0
    /\ rng = 0
    /\ calls = <<>>
    /\ missing = <<>>
    /\ output = [state |-> "untouched", pages |-> <<>>]
    /\ exitCause = "running"
    /\ exitStatus = -1

\* check_dependencies(): sys.exit(1) outside the with block when a tool is missing.
check_dependencies ==
    /\ pc = "check_dependencies"
    /\ missing' = MissingDeps(path)
    /\ IF missing' # <<>>
       THEN /\ pc' = "exited"
            /\ exitCause' = "missing_dependencies"
            /\ exitStatus' = 1
       ELSE /\ pc' = "mkdtemp"
            /\ UNCHANGED <<exitCause, exitStatus>>
    /\ UNCHANGED <<path, doc, tmpdir, tmpCreated, files, num_pages, scanned_pdfs, i,
                   rotation, rng, calls, output>>

\* with tempfile.TemporaryDirectory(prefix="printandscan-") as tmpdir:
EnterTmp ==
    /\ pc = "mkdtemp"
    /\ tmpdir' = TRUE
    /\ tmpCreated' = TRUE
    /\ files' = NoFiles
    /\ pc' = "normalize"
    /\ UNCHANGED <<path, doc, num_pages, scanned_pdfs, i, rotation, rng, calls,
                   missing, output, exitCause, exitStatus>>

\* 1. gs -sDEVICE=pdfwrite ... -sOutputFile=rgb_pdf document
Normalize ==
    /\ pc = "normalize"
    /\ \E outcome \in Outcomes :
        /\ calls' = Append(calls, Call("normalize", 0, <<>>, 0, 0, outcome))
        /\ files' = IF outcome = "ok"
                    THEN Written(files, rgb_pdf,
                                 [j \in 1..doc.pages |-> Page(j, "vector")])
                    ELSE files
        /\ IF Raises(outcome)
           THEN Leave(Error(outcome))
           ELSE /\ pc' = StageAfter("normalize", 0, num_pages)
                /\ UNCHANGED exitCause
    /\ UNCHANGED <<path, doc, tmpdir, tmpCreated, num_pages, scanned_pdfs, i, rotation,
                   rng, missing, output, exitStatus>>

\* 2. pdftk rgb_pdf burst output <base>-%04d.pdf
Split ==
    /\ pc = "split"
    /\ \E outcome \in Outcomes :
        /\ outcome = "ok" => Exists(rgb_pdf)
        /\ calls' = Append(calls, Call("split", 0, <<>>, 0, 0, outcome))
        /\ files' = IF outcome = "ok" THEN Burst(files, rgb_pdf) ELSE files
        /\ IF Raises(outcome)
           THEN Leave(Error(outcome))
           ELSE /\ pc' = StageAfter("split", 0, num_pages)
                /\ UNCHANGED exitCause
    /\ UNCHANGED <<path, doc, tmpdir, tmpCreated, num_pages, scanned_pdfs, i, rotation,
                   rng, missing, output, exitStatus>>

\* num_pages = get_pdf_page_count(rgb_pdf); scanned_pdfs = []
\* Every failure inside get_pdf_page_count ends in sys.exit(1).
get_pdf_page_count ==
    /\ pc = "page_count"
    /\ \E outcome \in Outcomes, withField \in BOOLEAN :
        LET stdout == IF outcome = "ok" /\ Exists(rgb_pdf)
                      THEN DumpData([pages |-> Len(files[rgb_pdf]),
                                     title |-> doc.title], withField)
                      ELSE <<>>
            match  == ReSearch(stdout)
        IN  /\ outcome = "ok" => Exists(rgb_pdf)
            /\ calls' = Append(calls, Call("page_count", 0, <<>>, 0, 0, outcome))
            /\ IF Raises(outcome) \/ match = -1
               THEN /\ Leave("SystemExit")
                    /\ UNCHANGED <<num_pages, scanned_pdfs>>
               ELSE /\ num_pages' = match
                    /\ scanned_pdfs' = <<>>
                    /\ pc' = StageAfter("page_count", 0, match)
                    /\ UNCHANGED exitCause
    /\ i' = IF pc' = "rasterize" THEN 1 ELSE i
    /\ UNCHANGED <<path, doc, tmpdir, tmpCreated, files, rotation, rng, missing,
                   output, exitStatus>>

\* magick -density D page_pdf -resize 2480x3508! page_png
Rasterize ==
    /\ pc = "rasterize"
    /\ \E outcome \in Outcomes :
        /\ outcome = "ok" => Exists(page_pdf(i))
        /\ calls' = Append(calls, Call("rasterize", i, <<>>, 0, 0, outcome))
        /\ files' = IF outcome = "ok"
                    THEN Written(files, page_png(i),
                                 Reform(Content(page_pdf(i)), "raster"))
                    ELSE files
        /\ IF Raises(outcome)
           THEN Leave(Error(outcome))
           ELSE /\ pc' = StageAfter("rasterize", i, num_pages)
                /\ UNCHANGED exitCause
    /\ UNCHANGED <<path, doc, tmpdir, tmpCreated, num_pages, scanned_pdfs, i, rotation,
                   rng, missing, output, exitStatus>>

\* Variant of Appended: scanned_pdfs.insert(0, scanned_pdf).
Appended_Front(list, x) == <<x>> \o list

\* scanned_pdfs.append(scanned_pdf)

Appended(list, x) == Append(list, x)

\* rotation = random.uniform(-.5, .5); magick page_png ... -rotate f'{rotation:.4f}'
\* ... scanned_pdf; scanned_pdfs.append(scanned_pdf)
Distort ==
    /\ pc = "distort"
    /\ \E k \in RandomDraws, outcome \in Outcomes :
        /\ outcome = "ok" => Exists(page_png(i))
        /\ rotation' = Uniform(k)
        /\ rng' = rng + 1
        /\ calls' = Append(calls, Call("distort", i, <<>>, Format4(rotation'), rng',
                                       outcome))
        /\ files' = IF outcome = "ok"
                    THEN Written(files, scanned_pdf(i),
                                 Reform(Content(page_png(i)), "scanned"))
                    ELSE files
        /\ IF Raises(outcome)
           THEN /\ Leave(Error(outcome))
                /\ UNCHANGED <<scanned_pdfs, i>>
           ELSE /\ scanned_pdfs' = Appended(scanned_pdfs, i)
                /\ pc' = StageAfter("distort", i, num_pages)
                /\ i' = IF pc' = "rasterize" THEN i + 1 ELSE i
                /\ UNCHANGED exitCause
    /\ UNCHANGED <<path, doc, tmpdir, tmpCreated, num_pages, missing, output,
                   exitStatus>>

\* magick -density D scanned_pdfs... large_pdf
\* With no input file named, what magick does is its own affair.
Assemble ==
    /\ pc = "assemble"
    /\ \E outcome \in Outcomes :
        /\ outcome = "ok" => \A n \in Range(scanned_pdfs) : Exists(scanned_pdf(n))
        /\ calls' = Append(calls, Call("assemble", 0, scanned_pdfs, 0, 0, outcome))
        /\ files' = IF outcome = "ok"
                    THEN Written(files, large_pdf,
                                 Concat(files, [j \in 1..Len(scanned_pdfs) |->
                                                   scanned_pdf(scanned_pdfs[j])]))
                    ELSE files
        /\ IF Raises(outcome)
           THEN Leave(Error(outcome))
           ELSE /\ pc' = StageAfter("assemble", 0, num_pages)
                /\ UNCHANGED exitCause
    /\ UNCHANGED <<path, doc, tmpdir, tmpCreated, num_pages, scanned_pdfs, i, rotation,
                   rng, missing, output, exitStatus>>

\* gs ... -sOutputFile=args.output_fname large_pdf
\* gs writes the output path itself: a run of gs that ends with a non-zero status
\* may already have created the file.
Compress ==
    /\ pc = "compress"
    /\ \E outcome \in Outcomes :
        /\ outcome = "ok" => Exists(large_pdf)
        /\ calls' = Append(calls, Call("compress", 0, <<>>, 0, 0, outcome))
        /\ output' \in
              IF outcome = "ok"
              THEN {[state |-> "complete", pages |-> Content(large_pdf)]}
              ELSE IF outcome = "nonzero"
              THEN {output, [state |-> "partial", pages |-> <<>>]}
              ELSE {output}
        /\ IF Raises(outcome)
           THEN Leave(Error(outcome))
           ELSE /\ pc' = StageAfter("compress", 0, num_pages)
                /\ exitCause' = "completed"
    /\ UNCHANGED <<path, doc, tmpdir, tmpCreated, files, num_pages, scanned_pdfs, i,
                   rotation, rng, missing, exitStatus>>

\* Status of a process whose main() was left for `cause`.
StatusOf(cause) ==
    CASE cause = "completed"         -> 0
      [] cause = "KeyboardInterrupt" -> 130
      [] OTHER                       -> 1

\* Variant of Cleanup: the directory is removed by a statement at the end of the
\* block, which an exception skips.
Cleanup_OnlyOnSuccess ==
    /\ pc = "unwind"
    /\ tmpdir' = (exitCause # "completed")
    /\ files' = IF exitCause = "completed" THEN NoFiles ELSE files
    /\ pc' = "exited"
    /\ exitStatus' = StatusOf(exitCause)
    /\ UNCHANGED <<path, doc, tmpCreated, num_pages, scanned_pdfs, i, rotation, rng,
                   calls, missing, output, exitCause>>

\* TemporaryDirectory.__exit__: the directory and all it holds are removed,
\* whether the block ended or an exception is passing through; then the process
\* exits.
Cleanup ==
    /\ pc = "unwind"
    /\ tmpdir' = FALSE
    /\ files' = NoFiles
    /\ pc' = "exited"
    /\ exitStatus' = StatusOf(exitCause)
    /\ UNCHANGED <<path, doc, tmpCreated, num_pages, scanned_pdfs, i, rotation, rng,
                   calls, missing, output, exitCause>>

\* Signals another process may send.  main() installs no handler: Python turns
\* SIGINT into KeyboardInterrupt, which unwinds the with block; SIGTERM and
\* SIGKILL end the process where it stands.
Signals == {"SIGINT", "SIGTERM", "SIGKILL"}

Interrupt ==
    /\ pc \in InBlock
    /\ \E sig \in Signals :
        IF sig = "SIGINT"
        THEN /\ Leave("KeyboardInterrupt")
             /\ UNCHANGED exitStatus
        ELSE /\ pc' = "exited"
             /\ exitCause' = sig
             /\ exitStatus' = IF sig = "SIGTERM" THEN 143 ELSE 137
    /\ UNCHANGED <<path, doc, tmpdir, tmpCreated, files, num_pages, scanned_pdfs, i,
                   rotation, rng, calls, missing, output>>

Next ==
    \/ check_dependencies
    \/ EnterTmp
    \/ Normalize
    \/ Split
    \/ get_pdf_page_count
    \/ Rasterize
    \/ Distort
    \/ Assemble
    \/ Compress
    \/ Cleanup
    \/ Interrupt

Spec == Init /\ [][Next]_vars

\* The interpreter keeps running: a run that can take a step takes one.
FairSpec == Spec /\ WF_vars(Next)

----------------------------------------------------------------------------
(* Properties *)

Invoked(op) == \E j \in 1..Len(calls) : calls[j].op = op

\* An invocation failed, or get_pdf_page_count found no page-count field.
Failed ==
    \/ \E j \in 1..Len(calls) : calls[j].outcome # "ok"
    \/ exitCause = "SystemExit"

\* The page files the Splitter left in the workspace.
PageFiles == {f \in DOMAIN files : f[1] = page_pdf(0)[1]}

\* C1. Page-count invariant: whenever the run has reached the Assembler with a
\* page count of num_pages, scanned_pdfs holds exactly num_pages entries, their
\* indices are exactly 1..num_pages (so none is missing and none repeats), the
\* degraded page files exist when the Assembler starts, and the Assembler is
\* handed that list.
C1_PageCountInvariant ==
    (pc = "assemble" \/ Invoked("assemble")) =>
        /\ num_pages >= 0
        /\ Len(scanned_pdfs) = num_pages
        /\ Range(scanned_pdfs) = 1..num_pages
        /\ pc = "assemble" => \A n \in 1..num_pages : Exists(scanned_pdf(n))
        /\ \A j \in 1..Len(calls) :
              calls[j].op = "assemble" => calls[j].pages = scanned_pdfs

C1_Witness ==
    /\ Invoked("assemble")
    /\ num_pages >= 2
    /\ Len(scanned_pdfs) = num_pages

\* C2. Order preservation: at every point of the run the k-th entry of
\* scanned_pdfs is page k and the file it names holds the degraded form of input
\* page k; the list only grows at its end; and a completed output document has
\* num_pages pages, the k-th being the degraded form of input page k.
C2_Ordered ==
    /\ \A k \in 1..Len(scanned_pdfs) :
          /\ scanned_pdfs[k] = k
          /\ Exists(scanned_pdf(scanned_pdfs[k])) =>
                files[scanned_pdf(scanned_pdfs[k])] = <<Page(k, "scanned")>>
    /\ output.state = "complete" =>
          /\ Len(output.pages) = num_pages
          /\ \A k \in 1..num_pages : output.pages[k] = Page(k, "scanned")

C2_OrderPreservation ==
    /\ []C2_Ordered
    /\ [][IsPrefix(scanned_pdfs, scanned_pdfs')]_vars

C2_Witness ==
    /\ output.state = "complete"
    /\ Len(output.pages) >= 2
    /\ pc = "exited"

Unwound == {"completed", "CalledProcessError", "FileNotFoundError", "SystemExit",
            "KeyboardInterrupt"}

C4_NoPartialOutput ==
    Failed => output.state = "untouched"

\* C5. Fatal on missing tool: when some required tool is not resolvable, the
\* temporary workspace is never created, no external tool is invoked, and the
\* run ends in check_dependencies with status 1 naming exactly the missing
\* tools, each once.
C5_FatalOnMissingTool ==
    path # Range(dependencies) =>
        /\ ~tmpCreated
        /\ ~tmpdir
        /\ calls = <<>>
        /\ pc \in {"check_dependencies", "exited"}
        /\ pc = "exited" =>
              /\ exitStatus = 1
              /\ Range(missing) = Range(dependencies) \ path
              /\ Len(missing) = Cardinality(Range(dependencies) \ path)

C5_Witness ==
    /\ pc = "exited"
    /\ exitCause = "missing_dependencies"
    /\ Len(missing) = 2

\* C6. Fail-stop: once an invocation has failed or the page-count field was
\* missing, no further invocation is ever started, the run is on its way out
\* of main(), and it terminates with a non-zero status.
C6_FailStop ==
    /\ [][Failed => calls' = calls]_vars
    /\ [](Failed => pc \in {"unwind", "exited"})
    /\ [](Failed /\ pc = "exited" => exitStatus # 0)
    /\ (Failed ~> (pc = "exited" /\ exitStatus # 0))

C6_Witness ==
    /\ pc = "exited"
    /\ exitStatus = 1
    /\ Len(calls) >= 5
    /\ calls[Len(calls)].op = "rasterize"
    /\ calls[Len(calls)].outcome = "nonzero"

\* C7. Zero-page policy: the Assembler is never handed an empty page list.
C7_ZeroPagePolicy ==
    \A j \in 1..Len(calls) : calls[j].op = "assemble" => calls[j].pages # <<>>

\* C8. Rotation bound: every distort invocation is passed an angle that, as
\* formatted to four decimals, lies in [-0.5000, 0.5000], and the angle of page
\* i comes from the i-th draw of the generator, one draw per invocation.
C8_RotationBound ==
    /\ \A j \in 1..Len(calls) :
          calls[j].op = "distort" =>
              /\ calls[j].angle \in -5000..5000
              /\ calls[j].draw = calls[j].page
    /\ rng = Cardinality({j \in 1..Len(calls) : calls[j].op = "distort"})

\* A second page whose angle was drawn below 0.5 and is passed as 0.5000.
C8_Witness ==
    /\ calls # <<>>
    /\ calls[Len(calls)].op = "distort"
    /\ calls[Len(calls)].page = 2
    /\ calls[Len(calls)].angle = 5000
    /\ 2 * rotation < RotDen

\* The fixed sequence of invocations of a run over n pages.
RECURSIVE DegradeSeq(_, _)
DegradeSeq(k, n) ==
    IF k > n THEN <<>>
    ELSE <<<<"rasterize", k>>, <<"distort", k>>>> \o DegradeSeq(k + 1, n)

Expected(n) ==
    <<<<"normalize", 0>>, <<"split", 0>>, <<"page_count", 0>>>>
        \o DegradeSeq(1, n)
        \o <<<<"assemble", 0>>, <<"compress", 0>>>>

\* C9. Strict sequencing: the invocations made so far are a prefix of normalize,
\* split, page-count, (rasterize i, distort i) for i = 1..num_pages, assemble,
\* compress, and every invocation but the last one made has succeeded.
C9_StrictSequencing ==
    /\ IsPrefix([j \in 1..Len(calls) |-> <<calls[j].op, calls[j].page>>],
                IF num_pages = -1 THEN SubSeq(Expected(0), 1, 3)
                ELSE Expected(num_pages))
    /\ \A j \in 1..(Len(calls) - 1) : calls[j].outcome = "ok"

C9_Witness ==
    /\ num_pages = 2
    /\ Len(calls) = 9
    /\ calls[9].outcome = "ok"

\* C10. Split/count agreement: while the run is in the Degrader loop, num_pages
\* equals the number of page files the Splitter produced.
C10_SplitCountAgreement ==
    pc \in {"rasterize", "distort"} => num_pages = Cardinality(PageFiles)

====
